---- MODULE Spec2Model ----
(***************************************************************************)
(* Model of the TravelDataAnalyst component (src/AnalystPortal.js): the    *)
(* batch of uploaded files, the Run Extraction handler processDocuments    *)
(* with its suspension points (file reads, the generateContent call), and  *)
(* the result / error state it publishes.                                  *)
(*                                                                         *)
(* One action is one event handler or one continuation of the async        *)
(* handler between two awaits; JavaScript runs each of them to completion, *)
(* and React re-renders after each, so the closure a handler sees holds    *)
(* the state as it was when the event fired.                               *)
(***************************************************************************)
EXTENDS Integers, Sequences, FiniteSets, TLC

VARIABLES
    files,          \* useState<FileWithStatus[]>: sequence of [id, status]
    isProcessing,   \* useState(false)
    result,         \* useState<ExtractionResult | null>
    error,          \* useState<string | null>
    run,            \* the processDocuments invocation: position and locals
    nextId,         \* ids handed out so far (ids are fresh random strings)
    returned,       \* what the latest Run Extraction click gave back to its caller
    lastEvent       \* the handler or continuation that ran last, with its argument

vars == <<files, isProcessing, result, error, run, nextId, returned, lastEvent>>

\* The component's own state: everything but the observation of the last event.
progVars == <<files, isProcessing, result, error, run>>

---------------------------------------------------------------------------
\* Bounds

\* Documents ever ingested in one behaviour.
MaxFiles == 3

\* Files picked in one file-input change event.
MaxPick == 2

---------------------------------------------------------------------------
\* Values

Null == [null |-> TRUE]

Statuses == {"pending", "processing", "completed", "error"}

\* JSON.parse("{}")
EmptyObject == [k \in {} |-> k]

BreakfastFree == [name |-> "breakfast", price |-> 0, isIncluded |-> TRUE]
SpaPriced == [name |-> "spa", price |-> 50, isIncluded |-> TRUE]
TransferPriced == [name |-> "transfer", price |-> 50, isIncluded |-> FALSE]

ResortBundleOk ==
    [resortName |-> "X", currency |-> "EUR", locationType |-> "Bundle",
     rooms |-> <<[type |-> "rate", price |-> 500]>>,
     activities |-> <<BreakfastFree>>]

ResortBundleBad ==
    [resortName |-> "X", currency |-> "EUR", locationType |-> "Bundle",
     rooms |-> <<[type |-> "rate", price |-> 500]>>,
     activities |-> <<BreakfastFree, SpaPriced>>]

ResortComponent ==
    [resortName |-> "Y", currency |-> "USD", locationType |-> "Component",
     rooms |-> <<[type |-> "room", price |-> 300]>>,
     activities |-> <<TransferPriced>>]

ResortNoCurrency ==
    [resortName |-> "Y", locationType |-> "Component",
     rooms |-> <<[type |-> "room", price |-> 300]>>,
     activities |-> <<TransferPriced>>]

\* The texts the collaborator's response may carry in response.text (the
\* resort objects are abbreviated; JSONParse gives the value of each).
TextEmpty == ""
TextGarbage == "I could not read the documents"
TextEmptyObject == "{}"
TextNoLocations == "{\"locations\":[]}"
TextBundleOk == "{\"locations\":[{\"name\":\"Finland\",\"resorts\":[bundle]}]}"
TextBundleBad == "{\"locations\":[{\"name\":\"Finland\",\"resorts\":[bundle, spa 50 included]}]}"
TextComponent == "{\"locations\":[{\"name\":\"Maldives\",\"resorts\":[component]}]}"
TextNoCurrency == "{\"locations\":[{\"name\":\"Maldives\",\"resorts\":[component without currency]}]}"

ResponseTexts ==
    {TextEmpty, TextGarbage, TextEmptyObject, TextNoLocations,
     TextBundleOk, TextBundleBad, TextComponent, TextNoCurrency}

\* response.text || "{}"
TextOrDefault(text) == IF text = "" THEN "{}" ELSE text

\* JSON.parse throws a SyntaxError on a text that is not JSON.
JSONParseThrows(text) == text \in {TextEmpty, TextGarbage}

\* JSON.parse: the value a JSON text denotes.
JSONParse(text) ==
    CASE text = TextEmptyObject -> EmptyObject
      [] text = TextNoLocations -> [locations |-> <<>>]
      [] text = TextBundleOk ->
            [locations |-> <<[name |-> "Finland", resorts |-> <<ResortBundleOk>>]>>]
      [] text = TextBundleBad ->
            [locations |-> <<[name |-> "Finland", resorts |-> <<ResortBundleBad>>]>>]
      [] text = TextComponent ->
            [locations |-> <<[name |-> "Maldives", resorts |-> <<ResortComponent>>]>>]
      [] text = TextNoCurrency ->
            [locations |-> <<[name |-> "Maldives", resorts |-> <<ResortNoCurrency>>]>>]

\* The error state set from err.message, by the stage that threw.
ErrRead == [message |-> "file read failed"]
ErrExtract == [message |-> "generateContent failed"]
ErrSyntax == [message |-> "SyntaxError"]

---------------------------------------------------------------------------
\* Helpers on the file list

Ids(fs) == {fs[i].id : i \in 1..Len(fs)}

StatusOf(fs, id) == (CHOOSE f \in {fs[i] : i \in 1..Len(fs)} : f.id = id).status

\* files.length === 0, as tested by the early return of processDocuments
\* and by the disabled attribute of the Run Extraction button.
BatchEmptyNever(fs) == FALSE
BatchEmpty(fs) == Len(fs) = 0

\* Array.from(e.target.files).map(f => ({file, id, status: 'pending'}))
NewFiles(n, from) == [i \in 1..n |-> [id |-> from + i, status |-> "pending"]]

\* prev.filter(f => f.id !== id)
WithoutId(fs, id) == SelectSeq(fs, LAMBDA f : f.id # id)

\* prev.map(f => ({ ...f, status: 'completed' }))
AllCompleted(fs) == [i \in 1..Len(fs) |-> [fs[i] EXCEPT !.status = "completed"]]

Event(op, id) == [op |-> op, id |-> id]

\* The response local of processDocuments before generateContent has resolved.
NoResponse == "no response"

IdleRun ==
    [pc |-> "idle", files |-> <<>>, parts |-> <<>>, calls |-> 0, sent |-> <<>>,
     response |-> NoResponse]

---------------------------------------------------------------------------
\* Initial state: the useState initial values.

Init ==
    /\ files = <<>>
    /\ isProcessing = FALSE
    /\ result = Null
    /\ error = Null
    /\ run = IdleRun
    /\ nextId = 0
    /\ returned = "none"
    /\ lastEvent = Event("mount", 0)

---------------------------------------------------------------------------
\* onFileChange: n files picked in the file input are appended as pending.
OnFileChange(n) ==
    /\ nextId + n <= MaxFiles
    /\ files' = files \o NewFiles(n, nextId)
    /\ nextId' = nextId + n
    /\ lastEvent' = Event("onFileChange", n)
    /\ UNCHANGED <<isProcessing, result, error, run, returned>>

\* removeFile(id), from the remove button rendered for every listed file.
RemoveFile(id) ==
    /\ id \in Ids(files)
    /\ files' = WithoutId(files, id)
    /\ lastEvent' = Event("removeFile", id)
    /\ UNCHANGED <<isProcessing, result, error, run, nextId, returned>>

\* disabled={files.length === 0 || isProcessing} of the Run Extraction button
ButtonDisabledWhenEmptyOnly == BatchEmpty(files)
ButtonDisabled == BatchEmpty(files) \/ isProcessing

\* The collaborator call: generateContent with the parts assembled so far.
CallOncePerPart(r) ==
    [r EXCEPT !.pc = "calling", !.calls = Len(r.files), !.sent = r.parts]
Call(r) ==
    [r EXCEPT !.pc = "calling", !.calls = r.calls + 1, !.sent = r.parts]

\* processDocuments up to its first await: the early return, the three
\* state resets, and the start of the loop over the files of the closure.
ProcessDocumentsKeepResult ==
    IF BatchEmpty(files)
    THEN /\ returned' = "undefined"
         /\ lastEvent' = Event("runReturn", 0)
         /\ UNCHANGED <<files, isProcessing, result, error, run, nextId>>
    ELSE /\ isProcessing' = TRUE
         /\ error' = Null
         /\ LET r == [pc |-> "reading", files |-> files, parts |-> <<>>,
                      calls |-> 0, sent |-> <<>>, response |-> NoResponse]
            IN  run' = IF Len(r.files) = 0 THEN Call(r) ELSE r
         /\ returned' = "pending promise"
         /\ lastEvent' = Event("runStart", 0)
         /\ UNCHANGED <<files, result, nextId>>
ProcessDocuments ==
    IF BatchEmpty(files)
    THEN /\ returned' = "undefined"
         /\ lastEvent' = Event("runReturn", 0)
         /\ UNCHANGED <<files, isProcessing, result, error, run, nextId>>
    ELSE /\ isProcessing' = TRUE
         /\ error' = Null
         /\ result' = Null
         /\ LET r == [pc |-> "reading", files |-> files, parts |-> <<>>,
                      calls |-> 0, sent |-> <<>>, response |-> NoResponse]
            IN  run' = IF Len(r.files) = 0 THEN Call(r) ELSE r
         /\ returned' = "pending promise"
         /\ lastEvent' = Event("runStart", 0)
         /\ UNCHANGED <<files, nextId>>

\* A click on the Run Extraction button: dropped while the button is
\* disabled, otherwise onClick={processDocuments}.
RunButtonClick ==
    IF ButtonDisabled
    THEN /\ returned' = "not invoked"
         /\ lastEvent' = Event("runDisabled", 0)
         /\ UNCHANGED <<files, isProcessing, result, error, run, nextId>>
    ELSE ProcessDocuments

\* catch (err) { setError(err.message || ...) } finally { setIsProcessing(false) }
\* (r is the invocation with what it has received so far)
CatchWithoutFinally(msg, op, r) ==
    /\ error' = msg
    /\ run' = [r EXCEPT !.pc = "idle"]
    /\ returned' = "undefined"
    /\ lastEvent' = Event(op, 0)
    /\ UNCHANGED <<files, isProcessing, result, nextId>>
CatchFinally(msg, op, r) ==
    /\ error' = msg
    /\ isProcessing' = FALSE
    /\ run' = [r EXCEPT !.pc = "idle"]
    /\ returned' = "undefined"
    /\ lastEvent' = Event(op, 0)
    /\ UNCHANGED <<files, result, nextId>>

\* await fileToBase64(f.file) resolves: the part is pushed; after the last
\* file the collaborator is called.
ReadResolve ==
    /\ run.pc = "reading"
    /\ LET f == run.files[Len(run.parts) + 1]
           r == [run EXCEPT !.parts = Append(run.parts, f.id)]
       IN  run' = IF Len(r.parts) = Len(r.files) THEN Call(r) ELSE r
    /\ lastEvent' = Event("readResolve", 0)
    /\ UNCHANGED <<files, isProcessing, result, error, nextId, returned>>

\* await fileToBase64(f.file) rejects (reader.onerror).
ReadReject ==
    /\ run.pc = "reading"
    /\ CatchFinally(ErrRead, "readReject", run)

\* setResult(extractedData); setFiles(prev => prev.map(... 'completed'));
\* finally setIsProcessing(false)
Publish(extractedData, r) ==
    /\ result' = extractedData
    /\ files' = AllCompleted(files)
    /\ isProcessing' = FALSE
    /\ run' = [r EXCEPT !.pc = "idle"]
    /\ returned' = "undefined"
    /\ lastEvent' = Event("published", 0)
    /\ UNCHANGED <<error, nextId>>

\* await ai.models.generateContent(...) resolves with response.text = text.
GenerateContentResolve(text) ==
    /\ run.pc = "calling"
    /\ LET r == [run EXCEPT !.response = text]
       IN  IF JSONParseThrows(TextOrDefault(text))
           THEN CatchFinally(ErrSyntax, "parseThrow", r)
           ELSE Publish(JSONParse(TextOrDefault(text)), r)

\* await ai.models.generateContent(...) rejects.
GenerateContentReject ==
    /\ run.pc = "calling"
    /\ CatchFinally(ErrExtract, "callReject", run)

Next ==
    \/ \E n \in 1..MaxPick : OnFileChange(n)
    \/ \E id \in 1..MaxFiles : RemoveFile(id)
    \/ RunButtonClick
    \/ ReadResolve
    \/ ReadReject
    \/ \E text \in ResponseTexts : GenerateContentResolve(text)
    \/ GenerateContentReject

Spec == Init /\ [][Next]_vars

---------------------------------------------------------------------------
\* Type invariant

TypeOK ==
    /\ \A i \in 1..Len(files) : files[i].id \in 1..nextId /\ files[i].status \in Statuses
    /\ isProcessing \in BOOLEAN
    /\ error \in {Null, ErrRead, ErrExtract, ErrSyntax}
    /\ run.pc \in {"idle", "reading", "calling"}
    /\ nextId \in 0..MaxFiles
    /\ returned \in {"none", "not invoked", "undefined", "pending promise"}

---------------------------------------------------------------------------
\* Vocabulary of the claims

\* The events that are a click on the Run Extraction button.
RunClickOps == {"runDisabled", "runReturn", "runStart"}

\* The events that end a run.
RunEndOps == {"published", "readReject", "parseThrow", "callReject"}

\* The Documents of the current or latest run that are still in the batch.
RunDocs == {f \in {files[i] : i \in 1..Len(files)} : f.id \in Ids(run.files)}

\* The error values the specification names; the code never produces them.
RunAlreadyInProgress == "RunAlreadyInProgress"
EmptyBatch == "EmptyBatch"

PermittedTransitions ==
    {<<"pending", "processing">>, <<"processing", "completed">>,
     <<"processing", "error">>}

\* All resorts of a published value, whatever its shape.
ResortsOf(res) ==
    IF "locations" \in DOMAIN res
    THEN UNION {{loc.resorts[j] : j \in 1..Len(loc.resorts)} :
                    loc \in {res.locations[i] : i \in 1..Len(res.locations)}}
    ELSE {}

ResortFields == {"resortName", "currency", "locationType", "rooms", "activities"}

ActivitiesOf(resort) ==
    IF "activities" \in DOMAIN resort
    THEN {resort.activities[i] : i \in 1..Len(resort.activities)}
    ELSE {}

---------------------------------------------------------------------------
\* C1: when a run has ended, the Documents of that run are all completed
\* or all error (none is left pending or processing).
C1_AllOrNothing ==
    lastEvent.op \in RunEndOps =>
        \/ \A f \in RunDocs : f.status = "completed"
        \/ \A f \in RunDocs : f.status = "error"

\* C2: when the collaborator call fails, every Document of the batch is in
\* state error, no result is published and an error is surfaced.
C2_CollaboratorFailure ==
    lastEvent.op = "callReject" =>
        /\ \A i \in 1..Len(files) : files[i].status = "error"
        /\ result = Null
        /\ error # Null

C4_RemoveOnlyWhilePending ==
    [][\A id \in 1..MaxFiles :
          (/\ lastEvent' = Event("removeFile", id)
           /\ id \in Ids(files)
           /\ StatusOf(files, id) # "pending")
          => files' = files]_vars

\* C5: every status change of a Document is pending->processing,
\* processing->completed or processing->error, and the start of a run sets
\* every Document of the batch to processing.
C5_PermittedTransitionsOnly ==
    [][/\ \A id \in Ids(files) \cap Ids(files') :
             StatusOf(files, id) # StatusOf(files', id)
                => <<StatusOf(files, id), StatusOf(files', id)>> \in PermittedTransitions
       /\ lastEvent'.op = "runStart"
             => \A i \in 1..Len(files') : files'[i].status = "processing"]_vars

C7_ExactlyOneCallPerRun ==
    lastEvent.op \in RunEndOps =>
        /\ run.calls = 1
        /\ run.sent = [i \in 1..Len(run.files) |-> run.files[i].id]

\* C7 (amended): a run makes at most one collaborator call; it makes none
\* before every Document of the batch (as it was when the run started) has
\* been read, exactly one once they all have been read, with all of them
\* together, and none if a read fails; the call is not repeated whether it
\* succeeds or fails.
C7_AtMostOneCallPerRun ==
    /\ run.calls <= 1
    /\ run.pc = "reading" => run.calls = 0
    /\ lastEvent.op = "readReject" => run.calls = 0
    /\ (run.pc = "calling" \/ lastEvent.op \in {"published", "parseThrow", "callReject"}) =>
            /\ run.calls = 1
            /\ run.sent = [i \in 1..Len(run.files) |-> run.files[i].id]

C7_Witness ==
    /\ lastEvent.op \in {"published", "callReject"}
    /\ Len(run.files) >= 2
    /\ run.calls = 1

\* C8: a published result never has zero locations.
C8_PublishedResultHasLocations ==
    result # Null =>
        /\ "locations" \in DOMAIN result
        /\ Len(result.locations) >= 1

\* C9: a candidate lacking a required field is never published, and the
\* Documents are not marked completed by a run that received one.
C9_MissingFieldRejected ==
    lastEvent.op = "published" =>
        \A resort \in ResortsOf(result) : ResortFields \subseteq DOMAIN resort

\* C10: in a published result no resort of locationType Bundle has an
\* activity with isIncluded = true and price > 0.
C10_BundleClassification ==
    \A resort \in ResortsOf(result) :
        ("locationType" \in DOMAIN resort /\ resort.locationType = "Bundle") =>
            \A a \in ActivitiesOf(resort) : ~(a.isIncluded /\ a.price > 0)

FailedEndOps == {"readReject", "parseThrow", "callReject"}

\* C11 (as stated): starting a run or a run failing does not change the
\* published result.
C11_OnlySuccessChangesResult ==
    [][lastEvent'.op \in {"runStart"} \cup FailedEndOps => result' = result]_vars

\* C11 (amended): the published result is replaced wholesale: starting a run
\* clears it, a failing run leaves it cleared, a successful run sets it to
\* exactly the value parsed from that run's response, and no other event
\* changes it.
C11_ResultReplacedWholesale ==
    [][/\ lastEvent'.op = "runStart" => result' = Null
       /\ lastEvent'.op \in FailedEndOps => (result = Null /\ result' = Null)
       /\ lastEvent'.op = "published" =>
             (result = Null /\ result' = JSONParse(TextOrDefault(run'.response)))
       /\ lastEvent'.op \notin {"runStart", "published"} => result' = result]_vars

\* A run has started after an earlier one had published a result.
C11_Witness ==
    /\ lastEvent.op = "runStart"
    /\ result = Null
    /\ \E i \in 1..Len(files) : files[i].status = "completed"

\* C12: the batch is reported as running (isProcessing) exactly when at
\* least one Document is in state processing.
C12_RunningIffSomeProcessing ==
    isProcessing <=> \E i \in 1..Len(files) : files[i].status = "processing"

---------------------------------------------------------------------------
\* Each pending file read and the pending collaborator call eventually
\* resolve or reject.
LiveSpec ==
    /\ Spec
    /\ WF_vars(ReadResolve \/ ReadReject)
    /\ WF_vars((\E text \in ResponseTexts : GenerateContentResolve(text))
                    \/ GenerateContentReject)

C14_CompletedOnlyIfSubmitted ==
    [][lastEvent'.op = "published" =>
          \A id \in Ids(files) \cap Ids(files') :
              (StatusOf(files, id) # "completed" /\ StatusOf(files', id) = "completed")
                  => id \in {run.sent[i] : i \in 1..Len(run.sent)}]_vars

====
